---- MODULE Spec2Model ----
(***************************************************************************)
(* A model of streamlit_app.py: the SEO analyzer's fetch / parse / select  *)
(* / match pipeline, its session state (results, processed_urls), the      *)
(* process-wide cache of fetch_html_content and the thread pool of main(). *)
(*                                                                         *)
(* Texts are sequences of characters, an HTML document is a sequence of    *)
(* element nodes, a DataFrame is a sequence of rows (records).             *)
(***************************************************************************)
EXTENDS Integers, Sequences, FiniteSets, TLC

(***************************************************************************)
(* Bounds of the model.                                                    *)
(***************************************************************************)
\* invocations of main() (script runs) explored in one behaviour
MaxRuns == 3
\* largest slider value explored (the slider itself allows SliderMin..SliderMax)
MaxK == 2
\* how many times the clock advances (so that a cache entry is seen younger
\* than, exactly as old as, and older than the TTL)
MaxTicks == 3

\* longest group of rows given to select_top_queries on its own
MaxRows == 11
\* longest group for which every sequence of rows is tried
MaxSmall == 3
\* most h1, h2 or h3 elements of a ParsedContent given to check_query_presence
MaxHeadings == 3
\* most heading elements in the body of a document given to parse_html
MaxKids == 2

(***************************************************************************)
(* Program constants.                                                      *)
(***************************************************************************)
\* @st.cache_data(ttl=3600)
TTL == 3600
\* st.slider(min_value=1, max_value=10)
SliderMin == 1
SliderMax == 10
\* queries_with_clicks.head(8)
TopByClicks == 8
\* remaining_slots = 10 - len(top_by_clicks)
MaxSelected == 10

\* the clock advances in steps of half the TTL
TickStep == TTL \div 2

(***************************************************************************)
(* Texts.                                                                  *)
(***************************************************************************)
\* str.lower() on one character of the alphabet used here
LowerChar(c) ==
  CASE c = "A" -> "a"
    [] c = "B" -> "b"
    [] OTHER -> c

\* str.lower()
Lower(s) == [i \in 1..Len(s) |-> LowerChar(s[i])]

\* `needle in hay` for Python strings: substring containment
Contains(needle, hay) ==
  \E i \in 0..(Len(hay) - Len(needle)) :
    \A j \in 1..Len(needle) : hay[i + j] = needle[j]

\* ''.join(texts)
RECURSIVE Concat(_)
Concat(texts) ==
  IF texts = <<>> THEN <<>> ELSE Head(texts) \o Concat(Tail(texts))

\* DataFrame.head(n) / list slicing [:n]
Take(s, n) == IF n <= 0 THEN <<>> ELSE SubSeq(s, 1, IF n < Len(s) THEN n ELSE Len(s))


(***************************************************************************)
(* HTML documents.  A document is a sequence of top-level nodes; a node    *)
(* has a tag, for a meta tag its name attribute and whether it carries a   *)
(* content attribute, its own text (for meta: the content value) and its   *)
(* child nodes.  The empty sequence is the empty string.                   *)
(***************************************************************************)
Node(tag, text) ==
  [tag |-> tag, name |-> "", hasContent |-> FALSE, text |-> text, kids |-> <<>>]

MetaNode(name, hasContent, content) ==
  [tag |-> "meta", name |-> name, hasContent |-> hasContent, text |-> content,
   kids |-> <<>>]

BodyNode(text, kids) ==
  [tag |-> "body", name |-> "", hasContent |-> FALSE, text |-> text, kids |-> kids]

\* every element of the document, in document order
AllNodes(html) == Concat([i \in 1..Len(html) |-> <<html[i]>> \o html[i].kids])

\* soup.find_all(tag)
FindAll(html, tag) == SelectSeq(AllNodes(html), LAMBDA n : n.tag = tag)

\* soup.find('meta', attrs={'name': 'description'}), as a sequence of 0 or 1 nodes
FindMetaDescription(html) ==
  Take(SelectSeq(AllNodes(html), LAMBDA n : n.tag = "meta" /\ n.name = "description"), 1)

\* element.get_text(): the element's text and the text of its descendants
GetText(n) == n.text \o Concat([i \in 1..Len(n.kids) |-> n.kids[i].text])

\* the empty dict {}
EmptyDict == [k \in {} |-> <<>>]

\* parse_html
parse_html(html_content) ==
  IF html_content = <<>> THEN EmptyDict
  ELSE
    [title |-> IF FindAll(html_content, "title") # <<>>
               THEN GetText(Head(FindAll(html_content, "title"))) ELSE <<>>,
     meta  |-> IF FindMetaDescription(html_content) # <<>>
               THEN (IF Head(FindMetaDescription(html_content)).hasContent
                     THEN Head(FindMetaDescription(html_content)).text ELSE <<>>)
               ELSE <<>>,
     h1    |-> [i \in 1..Len(FindAll(html_content, "h1")) |->
                  GetText(FindAll(html_content, "h1")[i])],
     h2    |-> [i \in 1..Len(FindAll(html_content, "h2")) |->
                  GetText(FindAll(html_content, "h2")[i])],
     h3    |-> [i \in 1..Len(FindAll(html_content, "h3")) |->
                  GetText(FindAll(html_content, "h3")[i])],
     body  |-> IF FindAll(html_content, "body") # <<>>
               THEN GetText(Head(FindAll(html_content, "body"))) ELSE <<>>]

\* dict.get(key, default)
Get(d, key, default) == IF key \in DOMAIN d THEN d[key] ELSE default

PresenceFields == {"Title", "Meta", "H1", "H2-1", "H2-2", "H3-1", "H3-2", "Body"}

\* check_query_presence without line 59: the query is compared as written
check_query_presence_as_written(parsed_html, query) ==
  [f \in PresenceFields |->
     CASE f = "Title" -> Contains(query, Lower(Get(parsed_html, "title", <<>>)))
       [] f = "Meta"  -> Contains(query, Lower(Get(parsed_html, "meta", <<>>)))
       [] f = "H1"    -> \E i \in 1..Len(Get(parsed_html, "h1", <<>>)) :
                           Contains(query, Lower(Get(parsed_html, "h1", <<>>)[i]))
       [] f = "H2-1"  -> Len(Get(parsed_html, "h2", <<>>)) > 0
                         /\ Contains(query, Lower(parsed_html["h2"][1]))
       [] f = "H2-2"  -> Len(Get(parsed_html, "h2", <<>>)) > 1
                         /\ Contains(query, Lower(parsed_html["h2"][2]))
       [] f = "H3-1"  -> Len(Get(parsed_html, "h3", <<>>)) > 0
                         /\ Contains(query, Lower(parsed_html["h3"][1]))
       [] f = "H3-2"  -> Len(Get(parsed_html, "h3", <<>>)) > 1
                         /\ Contains(query, Lower(parsed_html["h3"][2]))
       [] f = "Body"  -> Contains(query, Lower(Get(parsed_html, "body", <<>>)))]

\* check_query_presence with H2-2 and H3-2 falling back to the first element
\* when there is no second one
check_query_presence_fallback(parsed_html, query) ==
  LET q == Lower(query) IN
  [f \in PresenceFields |->
     CASE f = "Title" -> Contains(q, Lower(Get(parsed_html, "title", <<>>)))
       [] f = "Meta"  -> Contains(q, Lower(Get(parsed_html, "meta", <<>>)))
       [] f = "H1"    -> \E i \in 1..Len(Get(parsed_html, "h1", <<>>)) :
                           Contains(q, Lower(Get(parsed_html, "h1", <<>>)[i]))
       [] f = "H2-1"  -> Len(Get(parsed_html, "h2", <<>>)) > 0
                         /\ Contains(q, Lower(parsed_html["h2"][1]))
       [] f = "H2-2"  -> Len(Get(parsed_html, "h2", <<>>)) > 0
                         /\ Contains(q, Lower(parsed_html["h2"][
                               IF Len(parsed_html["h2"]) > 1 THEN 2 ELSE 1]))
       [] f = "H3-1"  -> Len(Get(parsed_html, "h3", <<>>)) > 0
                         /\ Contains(q, Lower(parsed_html["h3"][1]))
       [] f = "H3-2"  -> Len(Get(parsed_html, "h3", <<>>)) > 0
                         /\ Contains(q, Lower(parsed_html["h3"][
                               IF Len(parsed_html["h3"]) > 1 THEN 2 ELSE 1]))
       [] f = "Body"  -> Contains(q, Lower(Get(parsed_html, "body", <<>>)))]

\* check_query_presence
check_query_presence(parsed_html, query) ==
  LET q == Lower(query) IN
  [f \in PresenceFields |->
     CASE f = "Title" -> Contains(q, Lower(Get(parsed_html, "title", <<>>)))
       [] f = "Meta"  -> Contains(q, Lower(Get(parsed_html, "meta", <<>>)))
       [] f = "H1"    -> \E i \in 1..Len(Get(parsed_html, "h1", <<>>)) :
                           Contains(q, Lower(Get(parsed_html, "h1", <<>>)[i]))
       [] f = "H2-1"  -> Len(Get(parsed_html, "h2", <<>>)) > 0
                         /\ Contains(q, Lower(parsed_html["h2"][1]))
       [] f = "H2-2"  -> Len(Get(parsed_html, "h2", <<>>)) > 1
                         /\ Contains(q, Lower(parsed_html["h2"][2]))
       [] f = "H3-1"  -> Len(Get(parsed_html, "h3", <<>>)) > 0
                         /\ Contains(q, Lower(parsed_html["h3"][1]))
       [] f = "H3-2"  -> Len(Get(parsed_html, "h3", <<>>)) > 1
                         /\ Contains(q, Lower(parsed_html["h3"][2]))
       [] f = "Body"  -> Contains(q, Lower(Get(parsed_html, "body", <<>>)))]

(***************************************************************************)
(* DataFrames: sequences of rows                                           *)
(* [Query, Clicks, Impressions, LandingPage].                              *)
(***************************************************************************)
Row(q, c, i, u) == [Query |-> q, Clicks |-> c, Impressions |-> i, LandingPage |-> u]

\* Series.str.lower().str.contains('|'.join(map(str.lower, branded_terms))):
\* the lowercased query contains one of the lowercased terms
MatchesBranded(query, branded_terms) ==
  \E k \in 1..Len(branded_terms) : Contains(Lower(branded_terms[k]), Lower(query))

\* process_data
process_data(df, branded_terms) ==
  IF df # <<>>
  THEN IF branded_terms # <<>>
       THEN SelectSeq(df, LAMBDA r : ~MatchesBranded(r.Query, branded_terms))
       ELSE df
  ELSE <<>>

(***************************************************************************)
(* DataFrame.sort_values(key, ascending=False).  pandas sorts with         *)
(* kind='quicksort', which does not promise to keep the order of rows with *)
(* equal keys: `ties` names the outcome, "stable" (ties keep the input     *)
(* order) or "reversed" (ties come out in reverse input order).            *)
(***************************************************************************)
TiePolicies == {"stable", "reversed"}

\* how many leading rows of a descending-sorted frame come before row r
Before(sorted, r, key, ties) ==
  Cardinality({i \in 1..Len(sorted) :
                 IF ties = "stable" THEN sorted[i][key] >= r[key]
                                    ELSE sorted[i][key] > r[key]})

InsertDesc(sorted, r, key, ties) ==
  LET p == Before(sorted, r, key, ties) IN
  SubSeq(sorted, 1, p) \o <<r>> \o SubSeq(sorted, p + 1, Len(sorted))

RECURSIVE sort_values(_, _, _)
sort_values(df, key, ties) ==
  IF df = <<>> THEN <<>>
  ELSE InsertDesc(sort_values(SubSeq(df, 1, Len(df) - 1), key, ties),
                  df[Len(df)], key, ties)

\* lines 84-85 without the filter Clicks > 0
top_by_clicks_unfiltered(group, ties) ==
  Take(sort_values(group, "Clicks", ties), TopByClicks)

\* select_top_queries, lines 84-85
top_by_clicks(group, ties) ==
  Take(sort_values(SelectSeq(group, LAMBDA r : r.Clicks > 0), "Clicks", ties),
       TopByClicks)

\* line 89 without the exclusion of the rows already selected
remaining_queries_all(group, top) == group

\* select_top_queries, line 89: group[~group['Query'].isin(top_by_clicks['Query'])]
remaining_queries(group, top) ==
  SelectSeq(group, LAMBDA r : r.Query \notin {top[i].Query : i \in 1..Len(top)})

\* select_top_queries without the selection: every row of the group
select_top_queries_all(group, ties) == group

\* select_top_queries with the slots left for by-impressions fixed at 10 - 8
select_top_queries_fixed_slots(group, ties) ==
  LET top == top_by_clicks(group, ties)
  IN top \o Take(sort_values(remaining_queries(group, top), "Impressions", ties),
                 MaxSelected - TopByClicks)

\* select_top_queries
select_top_queries(group, ties) ==
  LET top == top_by_clicks(group, ties)
      remaining_slots == MaxSelected - Len(top)
  IN IF remaining_slots > 0
     THEN top \o Take(sort_values(remaining_queries(group, top), "Impressions", ties),
                      remaining_slots)
     ELSE top


(***************************************************************************)
(* The inputs explored: landing pages, uploaded CSV files, branded-term    *)
(* lists, and what the network answers.                                    *)
(***************************************************************************)
URLs == {"u1", "u2"}

\* a text of n characters: n different lengths give n different queries
Unary(n) == [j \in 1..n |-> "a"]

\* uploaded CSV files after pd.read_csv: one with a header line only, one
\* with rows for two landing pages, and one with more than 10 rows for one
\* landing page
Datasets ==
  { <<>>,
    << Row(<<"a">>, 2, 5, "u1"), Row(<<"A", "b">>, 0, 7, "u1"),
       Row(<<"b">>, 1, 1, "u2") >>,
    [i \in 1..MaxRows |-> Row(Unary(i), i % 3, i % 2, "u1")] }

\* values of branded_terms (line 102-105): no terms, one term, and the list
\* [''] that ''.split(',') yields
TermLists == { <<>>, << <<"B">> >>, << <<>> >> }

\* HTML texts a server may answer with; <<>> is a 2xx answer with an empty body
Pages ==
  { <<>>,
    << Node("title", <<"a", "b">>),
       BodyNode(<<>>, << Node("h1", <<"A">>), Node("h2", <<"b">>) >>) >> }

\* what requests.get / raise_for_status do: raise, or deliver response.text
Responses == {[ok |-> FALSE, text |-> <<>>]} \cup {[ok |-> TRUE, text |-> p] : p \in Pages}

(***************************************************************************)
(* Python values: Optional[str] and Optional[DataFrame].                   *)
(***************************************************************************)
None == [isNone |-> TRUE, val |-> <<>>]
Some(v) == [isNone |-> FALSE, val |-> v]

\* truth value of an Optional[str]: `if html_content:`
Truthy(x) == ~x.isNone /\ x.val # <<>>

(***************************************************************************)
(* State.                                                                  *)
(***************************************************************************)
VARIABLES
  results,         \* st.session_state.results: None or a DataFrame of records
  processed_urls,  \* st.session_state.processed_urls
  cache,           \* the st.cache_data store of fetch_html_content, by url
  now,             \* the clock, in seconds
  pc,              \* where the script thread is in main()
  df,              \* main: df after process_data
  max_concurrent,  \* main: the slider's value
  urls_to_process, \* main: line 126
  run_results,     \* main: the local list `results`
  completed,       \* main: the progress counter
  total,           \* main: len(urls_to_process)
  url,             \* main: the loop variable of the as_completed loop
  url_group,       \* main: line 147, the rows of the url at hand
  top_queries,     \* main: line 148, what select_top_queries returned
  tmp,             \* main: the value `completed += 1` has loaded and not yet stored
  task,            \* the executor's futures, by url
  yielded,         \* urls whose future as_completed has already yielded
  error,           \* whether st.error was shown by the latest invocation
  runs,            \* history: invocations of main() so far
  submits,         \* history: executor.submit calls per url in this session
  parse_cache,     \* the st.cache_data store of parse_html: its one entry
  html_content,    \* parse_html's argument
  parsed_html,     \* parse_html's result, check_query_presence's first argument
  query,           \* check_query_presence's second argument
  presence         \* check_query_presence's result

vars == <<results, processed_urls, cache, parse_cache, now, pc, df,
          max_concurrent, urls_to_process, run_results, completed, total, url,
          url_group, top_queries, tmp, task, yielded, error, runs, submits,
          html_content, parsed_html, query, presence>>

\* the argument and the result of parse_html and of check_query_presence when
\* they are called on their own
unitVars == <<html_content, parsed_html, query, presence>>

sessionVars == <<results, processed_urls>>
mainVars == <<df, max_concurrent, urls_to_process, run_results, completed, total,
              url, url_group, top_queries, tmp, error>>

NoEntry == [present |-> FALSE, value |-> None, stored |-> 0]
NoTask == [st |-> "none", value |-> None]

\* lines 20-24 and module load: a fresh session in a fresh server process
Init ==
  /\ results = None
  /\ processed_urls = {}
  /\ cache = [u \in URLs |-> NoEntry]
  /\ now = 0
  /\ pc = "idle"
  /\ df = <<>>
  /\ max_concurrent = SliderMin
  /\ urls_to_process = {}
  /\ run_results = <<>>
  /\ completed = 0
  /\ total = 0
  /\ url = ""
  /\ url_group = <<>>
  /\ top_queries = <<>>
  /\ tmp = 0
  /\ task = [u \in URLs |-> NoTask]
  /\ yielded = {}
  /\ error = FALSE
  /\ runs = 0
  /\ submits = [u \in URLs |-> 0]
  /\ parse_cache = None
  /\ html_content = <<>>
  /\ parsed_html = EmptyDict
  /\ query = <<>>
  /\ presence = EmptyDict

\* the script thread is not inside main()
ScriptIdle == pc \in {"idle", "stopped", "done"}

(***************************************************************************)
(* The cache of fetch_html_content (@st.cache_data(ttl=3600), line 27):    *)
(* the decorator stores whatever the function returns, under the url, and  *)
(* serves an entry while it is younger than the TTL.                       *)
(***************************************************************************)
\* a cache without ttl
CacheValidNoTTL(u) == cache[u].present

CacheValid(u) == cache[u].present /\ now < cache[u].stored + TTL

\* fetch_html_content's body, lines 30-39: response.text, or None after the
\* except branch
FetchResult(resp) == IF resp.ok THEN Some(resp.text) ELSE None

\* what the decorator stores for a computed value
CacheWrite(u, value) ==
  [cache EXCEPT ![u] = [present |-> TRUE, value |-> value, stored |-> now]]

(***************************************************************************)
(* main().                                                                 *)
(***************************************************************************)
\* df['Landing Page'].unique()
LandingPages(d) == {d[i].LandingPage : i \in 1..Len(d)}

\* line 126 without the subtraction of the processed urls
UrlsToProcessAll(d, processed) == LandingPages(d)

\* line 126
UrlsToProcess(d, processed) == LandingPages(d) \ processed

\* line 147: df[df['Landing Page'] == url]
UrlGroup(d, u) == SelectSeq(d, LAMBDA r : r.LandingPage = u)

\* line 41, @st.cache_data on parse_html(_html_content): a parameter whose name
\* starts with an underscore is left out of the cache key, so the store has
\* one entry, which answers every call once it is filled; it has no ttl
ParseCached(html) ==
  IF parse_cache.isNone THEN parse_html(html) ELSE parse_cache.val

ParseCacheWrite(html) ==
  IF parse_cache.isNone THEN Some(parse_html(html)) ELSE parse_cache

\* lines 150-158: the records of one url, one per selected row
RecordsFor(u, parsed, top) ==
  [i \in 1..Len(top) |->
     [URL |-> u, Query |-> top[i].Query, Clicks |-> top[i].Clicks,
      Impressions |-> top[i].Impressions,
      presence |-> check_query_presence(parsed, top[i].Query)]]

\* lines 145-158: what one completed future adds to the local list
Appended(u, html, d, ties) ==
  IF Truthy(html)
  THEN RecordsFor(u, ParseCached(html.val),
                  select_top_queries(UrlGroup(d, u), ties))
  ELSE <<>>

\* main() without the check of line 120
EmptyInputNever(d) == FALSE

\* line 120: df.empty
EmptyInput(d) == d = <<>>

\* lines 166-171 without the concatenation: the run's records replace the old
CommitOverwrite(old, new) ==
  IF new # <<>> THEN Some(new) ELSE old

\* lines 166-171 without the guard `if results:`
CommitAlways(old, new) ==
  IF old.isNone THEN Some(new) ELSE Some(old.val \o new)

\* lines 166-171
Commit(old, new) ==
  IF new # <<>>
  THEN (IF old.isNone THEN Some(new) ELSE Some(old.val \o new))
  ELSE old

\* lines 20-24: a new browser session gets a fresh session state; the cache
\* belongs to the server process and is kept
NewSession ==
  /\ ScriptIdle
  /\ results' = None
  /\ processed_urls' = {}
  /\ pc' = "idle"
  /\ submits' = [u \in URLs |-> 0]
  /\ max_concurrent' = SliderMin
  /\ error' = FALSE
  /\ UNCHANGED <<cache, now, df, urls_to_process, run_results, completed, total,
                 url, url_group, top_queries, tmp, task, yielded, runs,
                 unitVars, parse_cache>>

\* main() from line 115 to the submission of the batch (line 136), and to its
\* end when it returns early (line 122) or has no url to process (line 128);
\* when main() returns its locals are gone
Invoke(data, branded_terms, k) ==
  /\ ScriptIdle
  /\ runs < MaxRuns
  /\ runs' = runs + 1
  /\ max_concurrent' = k
  /\ LET d == process_data(data, branded_terms)
         batch == UrlsToProcess(d, processed_urls)
     IN IF EmptyInput(d)
        THEN /\ pc' = "stopped"
             /\ error' = TRUE
             /\ UNCHANGED <<df, urls_to_process, completed, total, task, yielded,
                            submits>>
        ELSE /\ error' = FALSE
             /\ IF batch # {}
                THEN /\ df' = d
                     /\ urls_to_process' = batch
                     /\ task' = [u \in URLs |->
                                   IF u \in batch THEN [st |-> "queued", value |-> None]
                                   ELSE NoTask]
                     /\ submits' = [u \in URLs |->
                                      IF u \in batch THEN submits[u] + 1
                                      ELSE submits[u]]
                     /\ completed' = 0
                     /\ total' = Cardinality(batch)
                     /\ pc' = "loop"
                     /\ UNCHANGED yielded
                ELSE /\ pc' = "done"
                     /\ UNCHANGED <<df, urls_to_process, completed, total, task,
                                    yielded, submits>>
  /\ UNCHANGED <<sessionVars, cache, now, run_results, url, url_group,
                 top_queries, tmp, unitVars, parse_cache>>

\* the fetches a worker of the pool is busy with
InFlight == {u \in URLs : task[u].st = "running"}

\* a pool that starts a thread for every submitted call
WorkerFreeAlways == TRUE

\* ThreadPoolExecutor(max_workers=max_concurrent): a worker is idle
WorkerFree == Cardinality(InFlight) < max_concurrent

\* a worker takes a queued call of fetch_html_content(u): the decorator answers
\* from the cache, or the body starts requests.get
WorkerStart(u) ==
  /\ task[u].st = "queued"
  /\ WorkerFree
  /\ IF CacheValid(u)
     THEN task' = [task EXCEPT ![u] = [st |-> "done", value |-> cache[u].value]]
     ELSE task' = [task EXCEPT ![u] = [st |-> "running", value |-> None]]
  /\ UNCHANGED <<sessionVars, cache, now, pc, mainVars, yielded, runs, submits,
                 unitVars, parse_cache>>

\* a worker that also counts its own completion (a done-callback design)
NetworkReturnCounting(u, resp) ==
  /\ task[u].st = "running"
  /\ task' = [task EXCEPT ![u] = [st |-> "done", value |-> FetchResult(resp)]]
  /\ cache' = CacheWrite(u, FetchResult(resp))
  /\ completed' = completed + 1
  /\ UNCHANGED <<sessionVars, now, pc, df, max_concurrent, urls_to_process,
                 run_results, total, url, url_group, top_queries, tmp, error,
                 yielded, runs, submits, unitVars, parse_cache>>

\* requests.get returns or raises (lines 34-39); the decorator stores the
\* function's return value and the future is done
NetworkReturn(u, resp) ==
  /\ task[u].st = "running"
  /\ task' = [task EXCEPT ![u] = [st |-> "done", value |-> FetchResult(resp)]]
  /\ cache' = CacheWrite(u, FetchResult(resp))
  /\ UNCHANGED <<sessionVars, now, pc, mainVars, yielded, runs, submits,
                 unitVars, parse_cache>>

\* a loop that waits for successful results only
ReadySuccessOnly(u) == task[u].st = "done" /\ u \notin yielded /\ ~task[u].value.isNone

\* line 141: as_completed can yield the future of u, which is done (with a
\* result or with None) and was not yielded before
Ready(u) == task[u].st = "done" /\ u \notin yielded

\* lines 141-158: as_completed yields a done future; its records are appended
LoopBody(u, ties) ==
  /\ pc = "loop"
  /\ Ready(u)
  /\ yielded' = yielded \cup {u}
  /\ url' = u
  /\ IF Truthy(task[u].value)
     THEN /\ url_group' = UrlGroup(df, u)
          /\ top_queries' = select_top_queries(UrlGroup(df, u), ties)
     ELSE UNCHANGED <<url_group, top_queries>>
  /\ run_results' = run_results \o Appended(u, task[u].value, df, ties)
  /\ parse_cache' = IF Truthy(task[u].value)
                    THEN ParseCacheWrite(task[u].value.val) ELSE parse_cache
  /\ pc' = "read"
  /\ UNCHANGED <<sessionVars, cache, now, df, max_concurrent, urls_to_process,
                 completed, total, tmp, error, task, runs, submits, unitVars>>

\* line 160, completed += 1: the load
CountRead ==
  /\ pc = "read"
  /\ tmp' = completed
  /\ pc' = "write"
  /\ UNCHANGED <<sessionVars, cache, now, df, max_concurrent, urls_to_process,
                 run_results, completed, total, url, url_group, top_queries,
                 error, task, yielded, runs, submits, unitVars, parse_cache>>

\* lines 160-163, completed += 1: the store, and the progress display
CountWrite ==
  /\ pc = "write"
  /\ completed' = tmp + 1
  /\ tmp' = 0
  /\ pc' = "mark"
  /\ UNCHANGED <<sessionVars, cache, now, df, max_concurrent, urls_to_process,
                 run_results, total, url, url_group, top_queries, error, task,
                 yielded, runs, submits, unitVars, parse_cache>>

\* line 164 moved into the `if html_content:` block
MarkOnSuccess ==
  /\ pc = "mark"
  /\ processed_urls' = IF Truthy(task[url].value) THEN processed_urls \cup {url}
                       ELSE processed_urls
  /\ pc' = "loop"
  /\ UNCHANGED <<results, cache, now, mainVars, task, yielded, runs, submits,
                 unitVars, parse_cache>>

\* line 164
Mark ==
  /\ pc = "mark"
  /\ processed_urls' = processed_urls \cup {url}
  /\ pc' = "loop"
  /\ UNCHANGED <<results, cache, now, mainVars, task, yielded, runs, submits,
                 unitVars, parse_cache>>

\* the loop is exhausted: the executor shuts down, lines 166-171 commit the
\* records, lines 174-197 display them and main() returns (its locals are gone)
Finish ==
  /\ pc = "loop"
  /\ yielded = urls_to_process
  /\ results' = Commit(results, run_results)
  /\ pc' = "done"
  /\ df' = <<>>
  /\ urls_to_process' = {}
  /\ run_results' = <<>>
  /\ completed' = 0
  /\ total' = 0
  /\ url' = ""
  /\ url_group' = <<>>
  /\ top_queries' = <<>>
  /\ task' = [u \in URLs |-> NoTask]
  /\ yielded' = {}
  /\ UNCHANGED <<processed_urls, cache, now, max_concurrent, tmp, error, runs,
                 submits, unitVars, parse_cache>>

\* time passes between two runs of the script (a run's fetches each end
\* within the timeout of 10 s, far less than a step of the clock)
Tick ==
  /\ ScriptIdle
  /\ now + TickStep <= MaxTicks * TickStep
  /\ now' = now + TickStep
  /\ UNCHANGED <<sessionVars, cache, pc, mainVars, task, yielded, runs, submits,
                 unitVars, parse_cache>>

Next ==
  \/ NewSession
  \/ \E data \in Datasets, terms \in TermLists, k \in SliderMin..MaxK :
       k <= SliderMax /\ Invoke(data, terms, k)
  \/ \E u \in URLs : WorkerStart(u)
  \/ \E u \in URLs, resp \in Responses : NetworkReturn(u, resp)
  \/ \E u \in URLs, ties \in TiePolicies : LoopBody(u, ties)
  \/ CountRead
  \/ CountWrite
  \/ Mark
  \/ Finish
  \/ Tick

Spec == Init /\ [][Next]_vars


\* the run's fetches are all in, yielded and counted: main() is about to commit
LoopExhausted == pc = "loop" /\ yielded = urls_to_process

\* the workers' steps and the script thread's steps inside a run
WorkerStep ==
  \/ \E u \in URLs : WorkerStart(u)
  \/ \E u \in URLs, resp \in Responses : NetworkReturn(u, resp)

MainStep ==
  \/ \E u \in URLs, ties \in TiePolicies : LoopBody(u, ties)
  \/ CountRead
  \/ CountWrite
  \/ Mark
  \/ Finish

\* the files explored for termination: those with fewer rows than a selection
\* holds at most
LiveDatasets == {d \in Datasets : Len(d) < MaxSelected}

\* the runs of one session, one after the other
LiveNext ==
  \/ \E data \in LiveDatasets, terms \in TermLists, k \in SliderMin..MaxK :
       k <= SliderMax /\ Invoke(data, terms, k)
  \/ WorkerStep
  \/ MainStep

\* every fetch returns or raises within its timeout, the pool runs what is
\* queued, and the script thread keeps running
LiveSpec ==
  Init /\ [][LiveNext]_vars /\ WF_vars(WorkerStep) /\ WF_vars(MainStep)

(***************************************************************************)
(* Reruns.  When the user changes a widget while the script runs, Streamlit *)
(* stops the script thread at its next st.* call and runs the script again  *)
(* from the top; the session state is kept, the locals of main() are not.   *)
(* Inside the loop the st.* calls are those of lines 162-163.               *)
(***************************************************************************)
\* lines 162-163 raise the rerun request's exception: line 164 is not run,
\* and the `with` block of line 132 is left, which waits for the pool
Rerun ==
  /\ pc = "mark"
  /\ pc' = "unwind"
  /\ UNCHANGED <<sessionVars, cache, now, mainVars, task, yielded, runs,
                 submits, unitVars, parse_cache>>

\* the pool has run every submitted call (shutdown(wait=True)): the exception
\* leaves main(), lines 166-197 are not run
Unwound ==
  /\ pc = "unwind"
  /\ \A u \in URLs : task[u].st \notin {"queued", "running"}
  /\ pc' = "stopped"
  /\ df' = <<>>
  /\ urls_to_process' = {}
  /\ run_results' = <<>>
  /\ completed' = 0
  /\ total' = 0
  /\ url' = ""
  /\ url_group' = <<>>
  /\ top_queries' = <<>>
  /\ task' = [u \in URLs |-> NoTask]
  /\ yielded' = {}
  /\ UNCHANGED <<sessionVars, cache, now, max_concurrent, tmp, error, runs,
                 submits, unitVars, parse_cache>>

\* the runs of one session, any of which may be cut short by a rerun
RerunNext ==
  \/ \E data \in Datasets, terms \in TermLists, k \in SliderMin..MaxK :
       k <= SliderMax /\ Invoke(data, terms, k)
  \/ WorkerStep
  \/ MainStep
  \/ Rerun
  \/ Unwound

RerunSpec == Init /\ [][RerunNext]_vars

(***************************************************************************)
(* select_top_queries on its own: a group of rows of one landing page is   *)
(* drawn, then selected from.                                              *)
(***************************************************************************)
\* every row of the short groups
SmallRows ==
  {Row(Unary(q), c, i, "u1") : q \in 1..2, c \in 0..2, i \in 0..1}

RECURSIVE SeqsUpTo(_, _)
SeqsUpTo(S, n) ==
  IF n = 0 THEN {<<>>}
  ELSE SeqsUpTo(S, n - 1)
       \cup {Append(g, r) : g \in {h \in SeqsUpTo(S, n - 1) : Len(h) = n - 1}, r \in S}

\* longer groups: row i has Clicks (a*i + b) % m, Impressions (c*i) % 3 and
\* the query number ((i - 1) % d) + 1, so that d > n gives n different queries
\* and a smaller d repeats queries
PatternGroup(n, a, b, m, c, d) ==
  [i \in 1..n |->
     Row(Unary(((i - 1) % d) + 1), (a * i + b) % m, (c * i) % 3, "u1")]

Groups ==
  SeqsUpTo(SmallRows, MaxSmall)
  \cup {PatternGroup(n, a, b, m, c, d) :
          n \in 0..MaxRows, a \in 0..2, b \in 0..2, m \in 1..3, c \in 0..2,
          d \in {1, 2, 5, MaxRows + 2}}

SelInit ==
  /\ results = None
  /\ processed_urls = {}
  /\ cache = [u \in URLs |-> NoEntry]
  /\ now = 0
  /\ pc = "select"
  /\ df = <<>>
  /\ max_concurrent = SliderMin
  /\ urls_to_process = {}
  /\ run_results = <<>>
  /\ completed = 0
  /\ total = 0
  /\ url = "u1"
  /\ url_group \in Groups
  /\ top_queries = <<>>
  /\ tmp = 0
  /\ task = [u \in URLs |-> NoTask]
  /\ yielded = {}
  /\ error = FALSE
  /\ runs = 0
  /\ submits = [u \in URLs |-> 0]
  /\ parse_cache = None
  /\ html_content = <<>>
  /\ parsed_html = EmptyDict
  /\ query = <<>>
  /\ presence = EmptyDict

\* line 148: top_queries = select_top_queries(url_group)
Select(ties) ==
  /\ pc = "select"
  /\ top_queries' = select_top_queries(url_group, ties)
  /\ pc' = "selected"
  /\ UNCHANGED <<sessionVars, cache, now, df, max_concurrent, urls_to_process,
                 run_results, completed, total, url, url_group, tmp, error,
                 task, yielded, runs, submits, unitVars, parse_cache>>

SelNext == \E ties \in TiePolicies : Select(ties)

SelSpec == SelInit /\ [][SelNext]_vars

(***************************************************************************)
(* parse_html on its own: documents are drawn and parsed, one call after   *)
(* the other in one server process.                                        *)
(***************************************************************************)
\* a document's body: some text and up to MaxKids headings
HeadingNodes == {Node("h1", <<"A">>), Node("h2", <<"b">>), Node("h3", <<"a">>)}

\* documents: the empty string, a document with none of the elements looked
\* for, and documents with or without a title, a meta tag (a description with
\* or without content, or another meta tag) and a body
Docs ==
  { <<>>, <<Node("p", <<"a">>)>> }
  \cup { t \o m \o b :
           t \in {<<>>, <<Node("title", <<"a", "B">>)>>},
           m \in {<<>>, <<MetaNode("description", TRUE, <<"b">>)>>,
                  <<MetaNode("description", FALSE, <<>>)>>,
                  <<MetaNode("keywords", TRUE, <<"a">>)>>},
           b \in {<<>>} \cup {<<BodyNode(<<"a">>, kids)>> :
                                kids \in SeqsUpTo(HeadingNodes, MaxKids)} }

ParseInit ==
  /\ results = None
  /\ processed_urls = {}
  /\ cache = [u \in URLs |-> NoEntry]
  /\ now = 0
  /\ pc = "parse"
  /\ df = <<>>
  /\ max_concurrent = SliderMin
  /\ urls_to_process = {}
  /\ run_results = <<>>
  /\ completed = 0
  /\ total = 0
  /\ url = ""
  /\ url_group = <<>>
  /\ top_queries = <<>>
  /\ tmp = 0
  /\ task = [u \in URLs |-> NoTask]
  /\ yielded = {}
  /\ error = FALSE
  /\ runs = 0
  /\ submits = [u \in URLs |-> 0]
  /\ parse_cache = None
  /\ html_content = <<>>
  /\ parsed_html = EmptyDict
  /\ query = <<>>
  /\ presence = EmptyDict

\* a call parse_html(html), lines 41-55
Parse(html) ==
  /\ pc \in {"parse", "parsed"}
  /\ html_content' = html
  /\ parsed_html' = ParseCached(html)
  /\ parse_cache' = ParseCacheWrite(html)
  /\ pc' = "parsed"
  /\ UNCHANGED <<sessionVars, cache, now, mainVars, task, yielded, runs,
                 submits, query, presence>>

ParseNext == \E html \in Docs : Parse(html)

ParseSpec == ParseInit /\ [][ParseNext]_vars

(***************************************************************************)
(* check_query_presence on its own: a ParsedContent and a query are drawn, *)
(* then matched.                                                           *)
(***************************************************************************)
Reverse(s) == [i \in 1..Len(s) |-> s[Len(s) + 1 - i]]

HeadingLists == SeqsUpTo({<<"A">>, <<"b">>}, MaxHeadings)

ParsedKeys == {"title", "meta", "h1", "h2", "h3", "body"}

\* dicts as parse_html builds them (the h3 list is the h1 list backwards),
\* what parse_html returns for the documents above, and dicts that lack keys
ParsedContents ==
  { [title |-> t, meta |-> m, h1 |-> a, h2 |-> b, h3 |-> Reverse(a), body |-> y] :
      t \in {<<>>, <<"a", "B">>}, m \in {<<>>, <<"b">>}, y \in {<<>>, <<"B", "a">>},
      a \in HeadingLists, b \in HeadingLists }
  \cup { parse_html(d) : d \in Docs }
  \cup { [k \in S |-> IF k \in {"h1", "h2", "h3"} THEN << <<"a">>, <<"B">> >>
                      ELSE <<"a", "B">>] : S \in SUBSET ParsedKeys }

Queries ==
  { <<>>, <<"a">>, <<"A">>, <<"B">>, <<"a", "b">>, <<"A", "B">>, <<"b", "a">> }

MatchInit ==
  /\ results = None
  /\ processed_urls = {}
  /\ cache = [u \in URLs |-> NoEntry]
  /\ now = 0
  /\ pc = "match"
  /\ df = <<>>
  /\ max_concurrent = SliderMin
  /\ urls_to_process = {}
  /\ run_results = <<>>
  /\ completed = 0
  /\ total = 0
  /\ url = ""
  /\ url_group = <<>>
  /\ top_queries = <<>>
  /\ tmp = 0
  /\ task = [u \in URLs |-> NoTask]
  /\ yielded = {}
  /\ error = FALSE
  /\ runs = 0
  /\ submits = [u \in URLs |-> 0]
  /\ parse_cache = None
  /\ html_content = <<>>
  /\ parsed_html \in ParsedContents
  /\ query \in Queries
  /\ presence = EmptyDict

\* a call check_query_presence(parsed_html, query), lines 57-69
Match ==
  /\ pc = "match"
  /\ presence' = check_query_presence(parsed_html, query)
  /\ pc' = "matched"
  /\ UNCHANGED <<sessionVars, cache, now, mainVars, task, yielded, runs,
                 submits, html_content, parsed_html, query, parse_cache>>

MatchNext == Match

MatchSpec == MatchInit /\ [][MatchNext]_vars



(***************************************************************************)
(* Properties.                                                             *)
(***************************************************************************)
\* the records of url u in a sequence of records
RecordsOf(u, rs) == SelectSeq(rs, LAMBDA r : r.URL = u)

AllFalse(r) == \A f \in PresenceFields : ~r.presence[f]

\* C1: when the loop of a run is exhausted, every url of the batch whose fetch
\* returned None is in processed_urls and the run's list holds, for that url,
\* one record per row select_top_queries picks for its group, in that order,
\* each with all 8 presence fields false.
C1_FailedFetchKeepsRecords ==
  LoopExhausted =>
    \A u \in urls_to_process :
      task[u].value.isNone =>
        /\ u \in processed_urls
        /\ \E ties \in TiePolicies :
             LET top == select_top_queries(UrlGroup(df, u), ties)
                 recs == RecordsOf(u, run_results)
             IN /\ Len(recs) = Len(top)
                /\ \A i \in 1..Len(recs) :
                     recs[i].Query = top[i].Query /\ AllFalse(recs[i])

C3_BoundedConcurrency ==
  /\ Cardinality(InFlight) <= max_concurrent
  /\ max_concurrent >= 1
  /\ max_concurrent <= 10

\* every worker is busy and a submitted url waits in the queue
C3_Witness ==
  /\ total > max_concurrent
  /\ Cardinality(InFlight) = max_concurrent
  /\ \E u \in URLs : task[u].st = "queued"

\* C4: the cache never holds an entry for a failed fetch, and a call that is
\* answered without a network request never returns the failure indicator.
C4_FailuresNotCached ==
  [][\A u \in URLs :
       /\ cache'[u].present => ~cache'[u].value.isNone
       /\ (task[u].st = "queued" /\ task'[u].st = "done") => ~task'[u].value.isNone]_vars

\* C5: when a worker takes the call for a url whose entry holds the HTML of a
\* successful fetch less than TTL seconds old, the call is done at once with
\* the stored HTML (no network request); when the entry is more than TTL
\* seconds old, the network request is made.
C5_CacheTTL ==
  [][\A u \in URLs :
       (task[u].st = "queued" /\ task'[u].st # "queued") =>
         /\ (cache[u].present /\ ~cache[u].value.isNone /\ now - cache[u].stored < 3600)
              => task'[u] = [st |-> "done", value |-> cache[u].value]
         /\ (cache[u].present /\ now - cache[u].stored > 3600)
              => task'[u].st = "running"]_vars

\* in one run, one url was answered from an entry younger than the TTL while
\* the request for another, whose entry is older than the TTL, is in flight
C5_Witness ==
  \E u, v \in URLs :
    /\ task[u].st = "done" /\ Truthy(task[u].value)
    /\ cache[u].present /\ cache[u].stored < now /\ now - cache[u].stored < 3600
    /\ task[v].st = "running"
    /\ cache[v].present /\ now - cache[v].stored > 3600

\* C6: no step within a session removes a url from processed_urls, and when
\* the loop of a run is exhausted every url of the batch is in processed_urls.
C6_ProcessedSetGrows ==
  [][/\ NewSession \/ processed_urls \subseteq processed_urls'
     /\ LoopExhausted' => urls_to_process' \subseteq processed_urls']_vars

\* a run ends with a failed and a successful url both marked, in a session
\* that had already processed another batch
C6_Witness ==
  /\ LoopExhausted
  /\ \E u \in urls_to_process : task[u].value.isNone /\ u \in processed_urls
  /\ processed_urls \ urls_to_process # {}

\* C7: an invocation whose input is empty after filtering shows the error and
\* returns: it submits nothing, no fetch is queued or in flight, and
\* processed_urls and results are as before.
C7_EmptyInputStops ==
  [][(runs' # runs
      /\ \E data \in Datasets, terms \in TermLists :
           process_data(data, terms) = <<>> /\ Invoke(data, terms, max_concurrent'))
     => /\ error'
        /\ pc' = "stopped"
        /\ submits' = submits
        /\ \A u \in URLs : task'[u].st \notin {"queued", "running"}
        /\ processed_urls' = processed_urls
        /\ results' = results]_vars

\* the error is shown in a session that already holds records
C7_Witness ==
  /\ pc = "stopped"
  /\ error
  /\ processed_urls # {}
  /\ ~results.isNone

\* C8: a run that has submitted its batch ends, and when its loop is exhausted
\* the counter equals the batch size and every url of the batch is marked.
C8_RunTerminates ==
  /\ (pc = "loop") ~> (pc = "done")
  /\ [](LoopExhausted =>
          completed = total /\ total = Cardinality(urls_to_process)
          /\ urls_to_process \subseteq processed_urls)

\* a run has ended although one of its fetches failed
C8_Witness ==
  /\ pc = "done"
  /\ \E u \in processed_urls : cache[u].present /\ cache[u].value.isNone

\* C9: only steps of the script thread change processed_urls, the run's list,
\* the session's results and the counter; the value `completed += 1` loaded is
\* still the counter's value when it is stored; and the counter counts every
\* yielded future.
C9_SingleWriter ==
  [][/\ (\/ completed' # completed
         \/ processed_urls' # processed_urls
         \/ run_results' # run_results
         \/ results' # results)
        => (pc' # pc \/ runs' # runs \/ NewSession)
     /\ pc = "write" => completed = tmp
     /\ pc' = "loop" => completed' = Cardinality(yielded')]_vars

\* the script thread is between the load and the store of the counter while
\* another fetch has completed
C9_Witness ==
  /\ pc = "write"
  /\ \E u \in URLs : u # url /\ Ready(u)

\* C10: select_top_queries returns at most 10 rows and at most as many rows as
\* the group has.
C10_SelectionLength ==
  pc = "selected" =>
    Len(top_queries) <= 10 /\ Len(top_queries) <= Len(url_group)

\* a group of more than 10 rows, of which 10 are selected
C10_Witness ==
  pc = "selected" /\ Len(url_group) > 10 /\ Len(top_queries) = 10


(***************************************************************************)
(* The selection, described by what it holds rather than by how it is      *)
(* computed.  Rows are told apart by their position in the group, so a     *)
(* sequence "takes its rows from" another when it holds no row more often. *)
(***************************************************************************)
Count(s, r) == Cardinality({i \in 1..Len(s) : s[i] = r})

TakenFrom(part, whole) ==
  \A i \in 1..Len(part) : Count(part, part[i]) <= Count(whole, part[i])

SortedDesc(s, key) == \A i \in 1..(Len(s) - 1) : s[i][key] >= s[i + 1][key]

\* `part` holds the first Len(part) rows of `whole` in some descending order
\* by key: no row left out has a larger key than a row taken
TopOf(part, whole, key) ==
  /\ TakenFrom(part, whole)
  /\ SortedDesc(part, key)
  /\ \A j \in 1..Len(whole) :
       Count(whole, whole[j]) > Count(part, whole[j]) =>
         \A i \in 1..Len(part) : part[i][key] >= whole[j][key]

Min(a, b) == IF a < b THEN a ELSE b

ClickRows(group) == SelectSeq(group, LAMBDA r : r.Clicks > 0)

\* the by-clicks part and the by-impressions part of a selection
ByClicks(group, out) == SubSeq(out, 1, Min(8, Len(ClickRows(group))))
ByImpressions(group, out) ==
  SubSeq(out, Min(8, Len(ClickRows(group))) + 1, Len(out))

\* the rows of the group that are left when the rows of `part` are taken out
RECURSIVE Without(_, _)
Without(whole, part) ==
  IF part = <<>> THEN whole
  ELSE LET i == CHOOSE j \in 1..Len(whole) : whole[j] = Head(part)
       IN Without(SubSeq(whole, 1, i - 1) \o SubSeq(whole, i + 1, Len(whole)),
                  Tail(part))

\* the rows of the group whose Query is the Query of no row of `part`
OtherQueries(whole, part) ==
  SelectSeq(whole, LAMBDA r : \A i \in 1..Len(part) : part[i].Query # r.Query)

DistinctQueries(group) ==
  \A i, j \in 1..Len(group) : group[i].Query = group[j].Query => i = j

\* what C12 says of a selection `out` made from `group`
SizeAndSplit(group, out) ==
  LET n == Len(group)
      c == Len(ClickRows(group))
  IN /\ Len(out) = Min(10, n)
     /\ c <= 8 =>
          /\ Len(out) >= c
          /\ TopOf(SubSeq(out, 1, c), ClickRows(group), "Clicks")
          /\ Len(out) - c = Min(10 - c, n - c)
          /\ TopOf(SubSeq(out, c + 1, Len(out)),
                   SelectSeq(group, LAMBDA r : r.Clicks <= 0), "Impressions")

TextOf(P, k) == IF k \in DOMAIN P THEN P[k] ELSE <<>>

\* lowercase(Q) is a substring of the lowercased text
SubstringOf(Q, text) ==
  \E a \in 1..(Len(text) + 1) : \E b \in (a - 1)..Len(text) :
    SubSeq(Lower(text), a, b) = Lower(Q)

\* the sequence has an element at (0-based) index i and Q is found in it
FoundAt(Q, P, k, i) ==
  Len(TextOf(P, k)) >= i + 1 /\ SubstringOf(Q, TextOf(P, k)[i + 1])

\* the texts that differ from Q in letter case only
Letters == {"a", "A", "b", "B"}
CaseVariants(Q) == {v \in [1..Len(Q) -> Letters] : Lower(v) = Lower(Q)}

\* C13: the matcher's result equals the reference: Title, Meta and Body are
\* true iff lowercase(Q) is a substring of the lowercased field; H1 iff it is
\* a substring of some h1 element; H2-1, H2-2, H3-1, H3-2 iff the h2 (h3)
\* sequence has an element at index 0, respectively 1, and lowercase(Q) is a
\* substring of that element; the result is the same for Q in any letter case.
C13_MatcherReference ==
  pc = "matched" =>
    /\ presence["Title"] = SubstringOf(query, TextOf(parsed_html, "title"))
    /\ presence["Meta"] = SubstringOf(query, TextOf(parsed_html, "meta"))
    /\ presence["Body"] = SubstringOf(query, TextOf(parsed_html, "body"))
    /\ presence["H1"] = (\E i \in 1..Len(TextOf(parsed_html, "h1")) :
                           SubstringOf(query, TextOf(parsed_html, "h1")[i]))
    /\ presence["H2-1"] = FoundAt(query, parsed_html, "h2", 0)
    /\ presence["H2-2"] = FoundAt(query, parsed_html, "h2", 1)
    /\ presence["H3-1"] = FoundAt(query, parsed_html, "h3", 0)
    /\ presence["H3-2"] = FoundAt(query, parsed_html, "h3", 1)
    /\ \A v \in CaseVariants(query) :
         check_query_presence(parsed_html, v) = presence

\* a query with a capital letter is found in the title and in the third h2
\* element only: H2-1 and H2-2 are false
C13_Witness ==
  /\ pc = "matched"
  /\ query # Lower(query)
  /\ presence["Title"]
  /\ Len(TextOf(parsed_html, "h2")) >= 3
  /\ SubstringOf(query, parsed_html["h2"][3])
  /\ ~presence["H2-1"]
  /\ ~presence["H2-2"]

\* the source element of a field is missing from P
Missing(P, f) ==
  CASE f = "Title" -> TextOf(P, "title") = <<>>
    [] f = "Meta"  -> TextOf(P, "meta") = <<>>
    [] f = "Body"  -> TextOf(P, "body") = <<>>
    [] f = "H1"    -> TextOf(P, "h1") = <<>>
    [] f = "H2-1"  -> Len(TextOf(P, "h2")) < 1
    [] f = "H2-2"  -> Len(TextOf(P, "h2")) < 2
    [] f = "H3-1"  -> Len(TextOf(P, "h3")) < 1
    [] f = "H3-2"  -> Len(TextOf(P, "h3")) < 2

EightBooleans(v) ==
  /\ DOMAIN v = {"Title", "Meta", "H1", "H2-1", "H2-2", "H3-1", "H3-2", "Body"}
  /\ \A f \in DOMAIN v : v[f] \in BOOLEAN

\* C14 as stated: for every ParsedContent and every query text the presence
\* vector has exactly the 8 fields, each a boolean, and every field whose
\* source element is missing is false.
C14_AsStated ==
  pc = "matched" =>
    /\ EightBooleans(presence)
    /\ \A f \in DOMAIN presence : Missing(parsed_html, f) => ~presence[f]

\* C14 (amended): the 8 boolean fields for every query text; a field whose
\* source element is missing is false for every query text that is not empty.
C14_EightBooleans ==
  pc = "matched" =>
    /\ EightBooleans(presence)
    /\ query # <<>> =>
         \A f \in DOMAIN presence : Missing(parsed_html, f) => ~presence[f]

\* a query that is not empty, matched against what parsing the empty string
\* returns: every field is false
C14_Witness ==
  /\ pc = "matched"
  /\ query # <<>>
  /\ parsed_html = parse_html(<<>>)
  /\ \A f \in PresenceFields : Missing(parsed_html, f) /\ ~presence[f]


\* the records of st.session_state.results, none when it is None
Output(r) == IF r.isNone THEN <<>> ELSE r.val

IsPrefix(s, t) == Len(s) <= Len(t) /\ SubSeq(t, 1, Len(s)) = s

\* C15: within a session the cumulative output is append-only: every step
\* that is not the start of a new session leaves the old sequence as a prefix
\* of the new one, and the step that ends an invocation puts exactly the
\* invocation's records after it.
C15_AppendOnly ==
  [][ NewSession
      \/ /\ IsPrefix(Output(results), Output(results'))
         /\ Output(results') =
              Output(results)
                \o (IF pc = "loop" /\ pc' = "done" THEN run_results ELSE <<>>) ]_vars

\* two invocations of one session have both added records: the one record of
\* u1 (its other row was filtered out as branded in that invocation) is
\* followed by the records of u2, added by a later invocation
C15_Witness ==
  /\ pc = "done"
  /\ Len(RecordsOf("u1", Output(results))) = 1
  /\ Len(RecordsOf("u2", Output(results))) >= 1
  /\ Output(results)[1].URL = "u1"

NoRepeatedRow(group) == \A i, j \in 1..Len(group) : group[i] = group[j] => i = j

\* where a row stands in its group
PositionIn(group, r) == CHOOSE i \in 1..Len(group) : group[i] = r

\* rows of `part` with equal keys stand in the order they have in the group
KeepsOrder(group, part, key) ==
  \A i, j \in 1..Len(part) :
    (i < j /\ part[i][key] = part[j][key]) =>
      PositionIn(group, part[i]) < PositionIn(group, part[j])

\* C16: the order of the selected rows is a function of the input row order
\* only: rows with equal Clicks in by-clicks, and rows with equal Impressions
\* in by-impressions, keep their original relative order.
C16_StableOrder ==
  (pc = "selected" /\ NoRepeatedRow(url_group)) =>
    /\ KeepsOrder(url_group, ByClicks(url_group, top_queries), "Clicks")
    /\ KeepsOrder(url_group, ByImpressions(url_group, top_queries), "Impressions")


\* C17: parsing empty HTML returns a ParsedContent in which all six fields
\* are present with empty values (empty texts and empty sequences).
C17_EmptyHtmlAllEmpty ==
  (pc = "parsed" /\ html_content = <<>>) =>
    /\ DOMAIN parsed_html = {"title", "meta", "h1", "h2", "h3", "body"}
    /\ \A k \in DOMAIN parsed_html : parsed_html[k] = <<>>


\* C18: every url that has records in the cumulative output is in
\* processed_urls, and the output holds at most 10 records of any one url.
C18_OutputWithinProcessed ==
  /\ \A i \in 1..Len(Output(results)) : Output(results)[i].URL \in processed_urls
  /\ \A u \in URLs : Len(RecordsOf(u, Output(results))) <= 10

\* the output holds 10 records of u1, selected from a group of more than 10
\* rows, and a later invocation on a file that names u1 again has fetched u2
\* only and adds no record of u1
C18_Witness ==
  /\ LoopExhausted
  /\ urls_to_process = {"u2"}
  /\ "u1" \in LandingPages(df)
  /\ "u1" \in processed_urls
  /\ Len(RecordsOf("u1", Output(results))) = 10
  /\ RecordsOf("u1", run_results) = <<>>

\* C20: the cumulative output is either unset or holds at least one record,
\* so the number of distinct urls the statistics divide by is at least 1.
C20_OutputNeverEmpty ==
  ~results.isNone =>
    /\ Len(results.val) >= 1
    /\ Cardinality({results.val[i].URL : i \in 1..Len(results.val)}) >= 1

\* an invocation in which every fetch failed has ended: its urls are marked
\* and the output is still unset
C20_Witness ==
  /\ pc = "done"
  /\ processed_urls # {}
  /\ \A u \in processed_urls : cache[u].present /\ cache[u].value.isNone
  /\ results.isNone


\* C19: when no invocation is under way, every url in processed_urls whose
\* fetch returned a page has records in the cumulative output.
C19_MarkedHaveRecords ==
  ScriptIdle =>
    \A u \in processed_urls :
      (cache[u].present /\ Truthy(cache[u].value)) =>
        RecordsOf(u, Output(results)) # <<>>

====
